---- MODULE Spec2Model ----
(***************************************************************************)
(* Model of check_judol.py: a sitemap is parsed into URLs, every URL is    *)
(* fetched by a task of a ThreadPoolExecutor through one shared requests   *)
(* session (urllib3 Retry mounted on it), every body is scanned for marker *)
(* keywords, and the collected results are written as a JSON report.       *)
(*                                                                         *)
(* Texts (loc texts, URLs, bodies) are sequences of one-character strings. *)
(***************************************************************************)
EXTENDS Integers, Sequences, FiniteSets, TLC

\* ---------------------------------------------------------------- bounds
\* largest number of <loc> elements in a sitemap
MaxLocs == 2
\* largest --concurrency value
MaxConc == 2
\* largest number of fragments a scanned body is made of
MaxParts == 3

\* ------------------------------------------------------ program constants
\* make_session(retries=3): Retry(total=retries)
Retries == 3
\* Retry(status_forcelist=(500, 502, 503, 504))
StatusForcelist == {500, 502, 503, 504}
\* urllib3 Retry.RETRY_AFTER_STATUS_CODES, in force because the Retry object
\* is built with the default respect_retry_after_header=True
RetryAfterStatusCodes == {413, 429, 503}
\* the keywords of has_judol
Keywords ==
  { <<"j","u","d","o","l">>, <<"g","a","c","o","r">>,
    <<"t","o","g","e","l">>, <<"m","a","x","w","i","n">> }
\* the literal of exact_judol
ExactKeyword == <<"j","u","d","o","l">>

\* ------------------------------------------------------------------ text
\* characters str.strip() removes
Whitespace == {" ", "\t", "\n"}

\* str.lower() on one character
LowerChar(c) ==
  CASE c = "A" -> "a" [] c = "B" -> "b" [] c = "C" -> "c" [] c = "D" -> "d"
    [] c = "E" -> "e" [] c = "F" -> "f" [] c = "G" -> "g" [] c = "H" -> "h"
    [] c = "I" -> "i" [] c = "J" -> "j" [] c = "K" -> "k" [] c = "L" -> "l"
    [] c = "M" -> "m" [] c = "N" -> "n" [] c = "O" -> "o" [] c = "P" -> "p"
    [] c = "Q" -> "q" [] c = "R" -> "r" [] c = "S" -> "s" [] c = "T" -> "t"
    [] c = "U" -> "u" [] c = "V" -> "v" [] c = "W" -> "w" [] c = "X" -> "x"
    [] c = "Y" -> "y" [] c = "Z" -> "z" [] OTHER -> c

\* str.lower()
Lower(s) == [i \in 1..Len(s) |-> LowerChar(s[i])]

RECURSIVE LStrip(_)
LStrip(s) ==
  IF s # <<>> /\ Head(s) \in Whitespace THEN LStrip(Tail(s)) ELSE s

RECURSIVE RStrip(_)
RStrip(s) ==
  IF s # <<>> /\ s[Len(s)] \in Whitespace
    THEN RStrip(SubSeq(s, 1, Len(s) - 1))
    ELSE s

\* str.strip()
Strip(s) == RStrip(LStrip(s))

\* mutant: a keyword counts only at the start of the text
ContainsAtStart(s, k) == Len(k) <= Len(s) /\ SubSeq(s, 1, Len(k)) = k

\* k in s
Contains(s, k) ==
  \E i \in 0..(Len(s) - Len(k)) : SubSeq(s, i + 1, i + Len(k)) = k

\* mutant: the keywords are looked for in the text as received
HasJudolCaseSensitive(text) == \E keyword \in Keywords : Contains(text, keyword)

\* has_judol = any(keyword in text_lower for keyword in (...))
HasJudol(text) ==
  LET text_lower == Lower(text)
  IN  \E keyword \in Keywords : Contains(text_lower, keyword)

\* mutant: the text is compared without trimming it
ExactJudolNoStrip(text) == Lower(text) = ExactKeyword

\* exact_judol = text.strip().lower() == 'judol'
ExactJudol(text) == Lower(Strip(text)) = ExactKeyword

\* number of positions of seq that hold x
CountIn(seq, x) == Cardinality({i \in DOMAIN seq : seq[i] = x})

\* the elements of a sequence
Range(seq) == {seq[i] : i \in DOMAIN seq}

\* all sequences over S of length at most n
SeqsUpTo(S, n) == UNION {[1..k -> S] : k \in 0..n}

\* --------------------------------------------------------------- sitemap
\* texts a <loc> element can carry
LocTexts == { <<"a">>, <<" ", "b", "\n">>, <<" ">> }

\* <loc> elements: e.text is None, or a text ('' when has_text and empty)
LocElems ==
  { [has_text |-> FALSE, text |-> <<>>] } \cup
  { [has_text |-> TRUE, text |-> t] : t \in LocTexts }

RECURSIVE SelectLocs(_)
SelectLocs(locs) ==
  IF locs = <<>> THEN <<>>
  ELSE LET e == Head(locs)
       IN  IF e.has_text /\ e.text # <<>>
             THEN <<Strip(e.text)>> \o SelectLocs(Tail(locs))
             ELSE SelectLocs(Tail(locs))

\* urls = [e.text.strip() for e in locs if e is not None and e.text]
parse_sitemap(doc) == SelectLocs(doc.locs)

\* mutant: a file that cannot be parsed is read as a sitemap without URLs
ParseRaisesNever(doc) == FALSE

\* ET.parse(path) raises: the file is missing or is not well-formed XML
ParseRaises(doc) == ~doc.well_formed

\* ------------------------------------------------------ server responses
\* what one HTTP attempt can meet: a response (status, Retry-After header,
\* body, and whether the body can be read to its end), or a transport
\* failure before any response (connection refused, DNS failure, timeout)
Http(status, retry_after, body) ==
  [kind |-> "http", status |-> status, retry_after |-> retry_after,
   body |-> body, intact |-> TRUE]

BrokenBody(status) ==
  [kind |-> "http", status |-> status, retry_after |-> FALSE,
   body |-> <<>>, intact |-> FALSE]

TransportError ==
  [kind |-> "error", status |-> 0, retry_after |-> FALSE,
   body |-> <<>>, intact |-> FALSE]

BodyPlain == <<"h", "i">>
BodyExact == <<" ", "J", "u", "D", "O", "L", "\n">>
BodyGacor == <<"x", "G", "A", "C", "O", "R">>

\* the response a server following `script` gives to the n-th attempt of one
\* request; it repeats its last response from then on
RespAt(script, n) ==
  IF n <= Len(script) THEN script[n] ELSE script[Len(script)]

\* ----------------------------------------------------- session.get(url)
\* requests refuses a URL without a scheme before any network call
ValidUrl(url) == url # <<>>

\* Retry.is_retry(method='GET', status_code, has_retry_after)
is_retry(total, status, has_retry_after) ==
  \/ status \in StatusForcelist
  \/ /\ total # 0
     /\ has_retry_after
     /\ status \in RetryAfterStatusCodes

\* mutant: the budget allows one more retry
is_exhaustedLate(total) == total - 1 < -1

\* mutant: the budget allows one retry less
is_exhaustedEarly(total) == total - 1 <= 0

\* Retry.increment(...).is_exhausted(): total - 1 < 0
is_exhausted(total) == total - 1 < 0

\* mutant: Retry(raise_on_status=False), the last response is returned when
\* the budget is spent on a status
AttemptReturnsLastResponse(total, resp) ==
  LET out(next, error) ==
        [next |-> next, status |-> resp.status, text |-> resp.body,
         error |-> error]
  IN  IF resp.kind = "error"
        THEN IF total - 1 < 0 THEN out("raise", "ConnectionError")
             ELSE out("retry", "")
      ELSE IF (resp.status \in StatusForcelist) /\ ~(total - 1 < 0)
        THEN out("retry", "")
      ELSE IF ~resp.intact THEN out("raise", "ChunkedEncodingError")
      ELSE out("response", "")

\* one attempt of session.get with `total` retries left, meeting resp:
\* another attempt follows ("retry"), the response is returned to fetch_url
\* ("response"), or an exception leaves session.get ("raise")
Attempt(total, resp) ==
  LET out(next, error) ==
        [next |-> next, status |-> resp.status, text |-> resp.body,
         error |-> error]
  IN  IF resp.kind = "error"
        THEN IF is_exhausted(total) THEN out("raise", "ConnectionError")
             ELSE out("retry", "")
      ELSE IF is_retry(total, resp.status, resp.retry_after)
        THEN IF is_exhausted(total) THEN out("raise", "RetryError")
             ELSE out("retry", "")
      ELSE IF ~resp.intact THEN out("raise", "ChunkedEncodingError")
      ELSE out("response", "")

\* session.get(url) refused before any attempt
Refused ==
  [next |-> "raise", status |-> 0, text |-> <<>>, error |-> "MissingSchema"]

\* ------------------------------------------------------------- fetch_url
Success(url, status, text) ==
  [url |-> url, ok |-> TRUE, status_code |-> status,
   has_judol |-> HasJudol(text), exact_judol |-> ExactJudol(text),
   length |-> Len(text)]

\* mutant: the failure entry carries a success field too
FailureWithStatus(url, error) ==
  [url |-> url, ok |-> FALSE, error |-> error, status_code |-> 0]

Failure(url, error) == [url |-> url, ok |-> FALSE, error |-> error]

\* mutant: the except clause misses the connection errors
CaughtSome(error) == error # "ConnectionError"

\* except Exception as e: every exception session.get raises is one
Caught(error) == TRUE

\* how a call of fetch_url ends in the future: a returned dict, or an
\* exception that f.result() raises again
Returned(r) == [raised |-> FALSE, value |-> r]
Raised(error) == [raised |-> TRUE, value |-> [error |-> error]]

\* mutant: a response outside 2xx is turned into an error, as with
\* r.raise_for_status()
fetch_endRaiseForStatus(url, a) ==
  IF a.next = "response" /\ a.status \in 200..299
    THEN Returned(Success(url, a.status, a.text))
  ELSE IF a.next = "response" THEN Returned(Failure(url, "HTTPError"))
  ELSE Returned(Failure(url, a.error))

\* the try/except of fetch_url around the end `a` of session.get
fetch_end(url, a) ==
  IF a.next = "response" THEN Returned(Success(url, a.status, a.text))
  ELSE IF Caught(a.error) THEN Returned(Failure(url, a.error))
  ELSE Raised(a.error)

\* session.get against a server following `script`, from attempt n on
RECURSIVE GetFrom(_, _, _)
GetFrom(script, total, n) ==
  LET a == Attempt(total, RespAt(script, n))
  IN  IF a.next = "retry" THEN GetFrom(script, total - 1, n + 1) ELSE a

\* fetch_url(session, url, timeout) run alone to its end
fetch_url(url, script) ==
  fetch_end(url, IF ValidUrl(url) THEN GetFrom(script, Retries, 1)
                 ELSE Refused)

\* ----------------------------------------------------------------- state
VARIABLES
  sitemap,          \* input: the sitemap document
  concurrency,      \* input: --concurrency
  server,           \* input: the script the server follows for each task
  history,          \* input: the run records completed and collected
  pc,               \* position of the main thread
  urls,             \* urls of run_checker
  session,          \* "none", "open" or "closed"
  results,          \* results of run_checker
  propagating,      \* an exception is leaving run_checker
  fstate,           \* per task: "NONE", "PENDING", "RUNNING", "FINISHED"
  fresult,          \* how the call ended, for every finished future
  total,            \* per task: Retry.total left for the running request
  attempts,         \* per task: HTTP attempts made so far
  work_queue,       \* executor._work_queue; 0 is the None wake-up item
  idle_semaphore,   \* executor._idle_semaphore
  num_threads,      \* len(executor._threads)
  alive,            \* worker threads that have not returned
  releasing,        \* workers between work_item.run() and the release
  shutdown,         \* executor._shutdown
  finished,         \* as_completed: futures finished at the snapshot
  batch,            \* as_completed: finished futures being yielded
  pending,          \* as_completed: futures not yet yielded
  waiter_on,        \* as_completed: the waiter is installed
  waiter_finished,  \* waiter.finished_futures
  report,           \* the report of run_checker, <<>> until it is built
  output_file,      \* content of the output file, <<>> while not written
  exit_code,        \* main's return value, -1 while running
  output_error,     \* open(output, 'w') has raised
  completed,        \* history: the tasks in the order their futures
                    \* finished, with 0 where as_completed took its snapshot
  collected         \* history: the tasks in the order of their entries in
                    \* results

inputs == <<sitemap, concurrency, server, history>>
mainv == <<pc, urls, session, results, propagating, report, output_file,
           exit_code, output_error, collected>>
taskv == <<fstate, fresult, total, attempts, completed>>
poolv == <<work_queue, idle_semaphore, num_threads, alive, releasing, shutdown>>
collv == <<finished, batch, pending, waiter_on, waiter_finished>>
vars == <<inputs, mainv, taskv, poolv, collv>>

Tasks == DOMAIN urls
Running == {i \in Tasks : fstate[i] = "RUNNING"}
\* workers blocked in work_queue.get(block=True)
Waiting == alive - Cardinality(Running) - releasing

\* ---------------------------------------------------------------- inputs
Sitemaps ==
  { [well_formed |-> FALSE, locs |-> <<>>] } \cup
  { [well_formed |-> TRUE, locs |-> l] : l \in SeqsUpTo(LocElems, MaxLocs) }

\* server behaviours of the pipeline runs
Scripts ==
  { <<Http(200, FALSE, BodyPlain)>>,
    <<Http(503, FALSE, BodyGacor), Http(200, FALSE, BodyExact)>>,
    <<TransportError>> }

\* what a single attempt can meet in the runs of one fetch
FetchResponses ==
  { Http(200, FALSE, BodyPlain), Http(200, FALSE, BodyExact),
    Http(404, FALSE, BodyGacor), Http(501, FALSE, BodyPlain),
    Http(429, TRUE, BodyPlain), Http(429, FALSE, BodyExact),
    Http(503, FALSE, BodyGacor), Http(500, TRUE, BodyPlain),
    TransportError, BrokenBody(200) }

\* fragments of the scanned bodies: whitespace, other text, keywords in
\* several cases, and the two halves of one
Parts ==
  { <<" ">>, <<"\n">>, <<"x">>, <<"l">>, <<"j","u","d","o">>,
    <<"J","u","D","o","L">>, <<"g","a","c","o","r">>,
    <<"T","O","G","E","L">>, <<"m","a","x","W","i","n">> }

RECURSIVE Concat(_)
Concat(ps) == IF ps = <<>> THEN <<>> ELSE Head(ps) \o Concat(Tail(ps))

\* the scanned bodies: every text made of at most MaxParts fragments
ScanBodies == {Concat(ps) : ps \in SeqsUpTo(Parts, MaxParts)}

\* statuses of responses that reach fetch_url without a retry
ScanStatuses == {200, 404}

\* server behaviours of the runs of one fetch: every sequence of responses
\* to the attempts a request can make
FetchScripts == [1..(Retries + 1) -> FetchResponses]

Start ==
  /\ pc = "run_checker"
  /\ urls = <<>>
  /\ session = "none"
  /\ results = <<>>
  /\ propagating = FALSE
  /\ fstate = <<>>
  /\ fresult = <<>>
  /\ total = <<>>
  /\ attempts = <<>>
  /\ work_queue = <<>>
  /\ idle_semaphore = 0
  /\ num_threads = 0
  /\ alive = 0
  /\ releasing = 0
  /\ shutdown = FALSE
  /\ finished = {}
  /\ batch = <<>>
  /\ pending = {}
  /\ waiter_on = FALSE
  /\ waiter_finished = <<>>
  /\ report = <<>>
  /\ output_file = <<>>
  /\ exit_code = -1
  /\ output_error = FALSE
  /\ completed = <<>>
  /\ collected = <<>>

\* the runs of the pipeline
Init ==
  /\ sitemap \in Sitemaps
  /\ concurrency \in 0..MaxConc
  /\ server \in [1..Len(parse_sitemap(sitemap)) -> Scripts]
  /\ history = FALSE
  /\ Start

\* the runs of one fetch: one <loc>, one worker, any server behaviour
InitFetch ==
  /\ sitemap \in { [well_formed |-> TRUE,
                    locs |-> <<[has_text |-> TRUE, text |-> t]>>] :
                   t \in LocTexts }
  /\ concurrency = 1
  /\ \E s \in FetchScripts : server = <<s>>
  /\ history = FALSE
  /\ Start

\* the runs of one scan: one URL, one worker, one response with any of the
\* scanned bodies
InitScan ==
  /\ sitemap = [well_formed |-> TRUE,
                locs |-> <<[has_text |-> TRUE, text |-> <<"a">>]>>]
  /\ concurrency = 1
  /\ \E st \in ScanStatuses, body \in ScanBodies :
       server = << <<Http(st, FALSE, body)>> >>
  /\ history = FALSE
  /\ Start

\* the runs whose order of completion and of collection is recorded: up to
\* MaxLocs times the same URL, any server behaviour of the pipeline runs
InitOrder ==
  /\ \E n \in 0..MaxLocs :
       sitemap = [well_formed |-> TRUE,
                  locs |-> [k \in 1..n |-> [has_text |-> TRUE, text |-> <<"a">>]]]
  /\ concurrency \in 1..MaxConc
  /\ server \in [1..Len(parse_sitemap(sitemap)) -> Scripts]
  /\ history = TRUE
  /\ Start

\* the runs checked for termination: the same, without the record
InitLive ==
  /\ \E n \in 0..MaxLocs :
       sitemap = [well_formed |-> TRUE,
                  locs |-> [k \in 1..n |-> [has_text |-> TRUE, text |-> <<"a">>]]]
  /\ concurrency \in 1..MaxConc
  /\ server \in [1..Len(parse_sitemap(sitemap)) -> Scripts]
  /\ history = FALSE
  /\ Start

\* ----------------------------------------------------------- main thread
\* run_checker up to the creation of the executor; an exception leaves
\* run_checker and main returns 2
RunChecker ==
  /\ pc = "run_checker"
  /\ IF ParseRaises(sitemap)
       THEN /\ pc' = "done"
            /\ exit_code' = 2
            /\ UNCHANGED <<urls, session, fstate, total, attempts>>
       ELSE LET us == parse_sitemap(sitemap)
            IN  /\ urls' = us
                /\ session' = "open"
                /\ fstate' = [i \in DOMAIN us |-> "NONE"]
                /\ total' = [i \in DOMAIN us |-> 0]
                /\ attempts' = [i \in DOMAIN us |-> 0]
                /\ IF concurrency <= 0
                     THEN pc' = "done" /\ exit_code' = 2
                     ELSE /\ pc' = IF us = <<>> THEN "as_completed" ELSE "submit"
                          /\ UNCHANGED exit_code
  /\ UNCHANGED <<inputs, results, propagating, report, output_file, fresult,
                 output_error, completed, collected, poolv, collv>>

\* mutant: the thread count is compared with <=
NeedThreadOffByOne == idle_semaphore = 0 /\ num_threads <= concurrency

\* _adjust_thread_count: a new worker thread is started
NeedThread == idle_semaphore = 0 /\ num_threads < concurrency

\* ex.submit(fetch_url, session, u, timeout) for the next url
Submit ==
  /\ pc = "submit"
  /\ LET i == Cardinality({j \in Tasks : fstate[j] # "NONE"}) + 1
     IN  /\ fstate' = [fstate EXCEPT ![i] = "PENDING"]
         /\ work_queue' = Append(work_queue, i)
         /\ pc' = IF i = Len(urls) THEN "as_completed" ELSE "submit"
  /\ IF idle_semaphore > 0
       THEN idle_semaphore' = idle_semaphore - 1 /\ UNCHANGED <<num_threads, alive>>
       ELSE /\ UNCHANGED idle_semaphore
            /\ IF NeedThread
                 THEN num_threads' = num_threads + 1 /\ alive' = alive + 1
                 ELSE UNCHANGED <<num_threads, alive>>
  /\ UNCHANGED <<inputs, urls, session, results, propagating, report,
                 output_file, exit_code, output_error, collected, fresult,
                 total, attempts, completed, releasing, shutdown, collv>>

\* mutant: the running futures are left out of pending
SnapshotPendingQueuedOnly == {i \in Tasks : fstate[i] = "PENDING"}

\* as_completed: pending = fs - finished
SnapshotPending == {i \in Tasks : fstate[i] # "FINISHED"}

\* mutant: session.close() stands before the loop over as_completed
AsCompletedClosing ==
  /\ pc = "as_completed"
  /\ session' = "closed"
  /\ finished' = {i \in Tasks : fstate[i] = "FINISHED"}
  /\ pending' = SnapshotPending
  /\ waiter_on' = TRUE
  /\ pc' = "collect"
  /\ completed' = IF history THEN Append(completed, 0) ELSE completed
  /\ UNCHANGED <<inputs, urls, results, propagating, report, output_file,
                 exit_code, output_error, collected, fstate, fresult, total,
                 attempts, poolv, batch, waiter_finished>>

\* as_completed(futures): the snapshot of the finished futures and the
\* installation of the waiter
AsCompleted ==
  /\ pc = "as_completed"
  /\ finished' = {i \in Tasks : fstate[i] = "FINISHED"}
  /\ pending' = SnapshotPending
  /\ waiter_on' = TRUE
  /\ pc' = "collect"
  /\ completed' = IF history THEN Append(completed, 0) ELSE completed
  /\ UNCHANGED <<inputs, urls, session, results, propagating, report,
                 output_file, exit_code, output_error, collected, fstate,
                 fresult, total, attempts, poolv, batch, waiter_finished>>

\* results.append(f.result()): f.result() returns the dict, or raises the
\* exception of the call again
AppendResult(i) ==
  IF fresult[i].raised
    THEN propagating' = TRUE /\ UNCHANGED <<results, collected>>
    ELSE /\ results' = Append(results, fresult[i].value)
         /\ collected' = IF history THEN Append(collected, i) ELSE collected
         /\ UNCHANGED propagating

\* mutant: the futures of the waiter are yielded last first
BatchOrderReversed(fs) == [k \in 1..Len(fs) |-> fs[Len(fs) + 1 - k]]

\* as_completed: waiter.finished_futures is reversed and then yielded from
\* its end, that is in the order the futures finished
BatchOrder(fs) == fs

\* one iteration of `for f in as_completed(futures)`
Collect ==
  /\ pc = "collect"
  /\ ~propagating
  /\ \/ \E i \in finished :
          /\ AppendResult(i)
          /\ finished' = finished \ {i}
          /\ UNCHANGED <<batch, pending, waiter_finished>>
     \/ /\ finished = {}
        /\ batch # <<>>
        /\ AppendResult(Head(batch))
        /\ batch' = Tail(batch)
        /\ pending' = pending \ {Head(batch)}
        /\ UNCHANGED <<finished, waiter_finished>>
     \/ /\ finished = {}
        /\ batch = <<>>
        /\ pending # {}
        /\ waiter_finished # <<>>
        /\ LET fs == BatchOrder(waiter_finished)
           IN  /\ AppendResult(Head(fs))
               /\ batch' = Tail(fs)
               /\ pending' = pending \ {Head(fs)}
        /\ waiter_finished' = <<>>
        /\ UNCHANGED finished
  /\ UNCHANGED <<inputs, pc, urls, session, report, output_file, exit_code,
                 output_error, taskv, poolv, waiter_on>>

\* mutant: the loop does not wait for the pending futures
LoopDoneNoWait == finished = {} /\ batch = <<>>

\* the for loop is over: as_completed has yielded every future
LoopDone == finished = {} /\ batch = <<>> /\ pending = {}

\* the end of the with block, reached at the end of the loop or by an
\* exception: ex.shutdown(wait=True) up to the joins
ExecutorExit ==
  /\ pc = "collect"
  /\ LoopDone \/ propagating
  /\ shutdown' = TRUE
  /\ work_queue' = Append(work_queue, 0)
  /\ pc' = "join"
  /\ UNCHANGED <<inputs, urls, session, results, propagating, report,
                 output_file, exit_code, output_error, collected, taskv,
                 idle_semaphore, num_threads, alive, releasing, collv>>

\* the joins of shutdown have returned: session.close(), or the exception
\* leaves run_checker and main returns 2
JoinAndClose ==
  /\ pc = "join"
  /\ alive = 0
  /\ IF propagating
       THEN pc' = "done" /\ exit_code' = 2 /\ UNCHANGED session
       ELSE pc' = "report" /\ session' = "closed" /\ UNCHANGED exit_code
  /\ UNCHANGED <<inputs, urls, results, propagating, report, output_file,
                 output_error, collected, taskv, poolv, collv>>

\* mutant: count is the number of entries that were fetched
ReportCountOk ==
  [sitemap |-> sitemap,
   count |-> Cardinality({k \in DOMAIN results : results[k].ok}),
   results |-> results]

\* report = {'sitemap': sitemap, 'count': len(urls), 'results': results}
Report == [sitemap |-> sitemap, count |-> Len(urls), results |-> results]

\* report = {...}; open(output, 'w'); json.dump(report, fh); main returns 0,
\* or 2 when the output cannot be opened
WriteReport ==
  /\ pc = "report"
  /\ report' = Report
  /\ \E writable \in BOOLEAN :
       /\ output_error' = ~writable
       /\ IF writable
            THEN output_file' = report' /\ exit_code' = 0
            ELSE UNCHANGED output_file /\ exit_code' = 2
  /\ pc' = "done"
  /\ UNCHANGED <<inputs, urls, session, results, propagating, collected, taskv,
                 poolv, collv>>

\* -------------------------------------------------------- worker threads
\* mutant: the retry budget is one counter shared by the whole session
FreshTotalShared ==
  IF \E j \in DOMAIN attempts : attempts[j] > 0 THEN 0 ELSE Retries

\* the Retry a request starts with: session.get hands the adapter's
\* max_retries to urlopen, and every increment builds a new Retry
FreshTotal == Retries

\* a waiting worker takes a work item: the future is RUNNING and fetch_url
\* starts its request
WorkerGet ==
  /\ Waiting > 0
  /\ work_queue # <<>>
  /\ Head(work_queue) # 0
  /\ work_queue' = Tail(work_queue)
  /\ fstate' = [fstate EXCEPT ![Head(work_queue)] = "RUNNING"]
  /\ total' = [total EXCEPT ![Head(work_queue)] = FreshTotal]
  /\ UNCHANGED <<inputs, mainv, fresult, attempts, completed, idle_semaphore,
                 num_threads, alive, releasing, shutdown, collv>>

\* one step of fetch_url in task i: the URL is refused, or one HTTP attempt
\* is made; unless a retry follows, fetch_url ends and the future is
\* FINISHED (the waiter of as_completed is told)
FetchAttempt(i) ==
  /\ fstate[i] = "RUNNING"
  /\ LET a == IF ValidUrl(urls[i])
                THEN Attempt(total[i], RespAt(server[i], attempts[i] + 1))
                ELSE Refused
     IN  /\ attempts' = [attempts EXCEPT
                           ![i] = IF ValidUrl(urls[i]) THEN @ + 1 ELSE @]
         /\ IF a.next = "retry"
              THEN /\ total' = [total EXCEPT ![i] = @ - 1]
                   /\ UNCHANGED <<fstate, fresult, completed, releasing,
                                  waiter_finished>>
              ELSE /\ fstate' = [fstate EXCEPT ![i] = "FINISHED"]
                   /\ fresult' = fresult @@ (i :> fetch_end(urls[i], a))
                   /\ completed' =
                        IF history THEN Append(completed, i) ELSE completed
                   /\ releasing' = releasing + 1
                   /\ waiter_finished' =
                        IF waiter_on THEN Append(waiter_finished, i)
                        ELSE waiter_finished
                   /\ UNCHANGED total
  /\ UNCHANGED <<inputs, mainv, work_queue, idle_semaphore, num_threads, alive,
                 shutdown, finished, batch, pending, waiter_on>>

\* executor._idle_semaphore.release() after work_item.run()
WorkerRelease ==
  /\ releasing > 0
  /\ releasing' = releasing - 1
  /\ idle_semaphore' = idle_semaphore + 1
  /\ UNCHANGED <<inputs, mainv, taskv, work_queue, num_threads, alive,
                 shutdown, collv>>

\* mutant: the worker that got None does not put it back
PutBackDropped(q) == Tail(q)

\* work_item = work_queue.get(); ... work_queue.put(None): the None the
\* worker took is back in the queue for the next worker
PutBack(q) == Append(Tail(q), 0)

\* a waiting worker gets None after the shutdown: it puts None back and
\* returns
WorkerExit ==
  /\ Waiting > 0
  /\ work_queue # <<>>
  /\ Head(work_queue) = 0
  /\ shutdown
  /\ work_queue' = PutBack(work_queue)
  /\ alive' = alive - 1
  /\ UNCHANGED <<inputs, mainv, taskv, idle_semaphore, num_threads, releasing,
                 shutdown, collv>>

Next ==
  \/ RunChecker
  \/ Submit
  \/ AsCompleted
  \/ Collect
  \/ ExecutorExit
  \/ JoinAndClose
  \/ WriteReport
  \/ WorkerGet
  \/ \E i \in Tasks : FetchAttempt(i)
  \/ WorkerRelease
  \/ WorkerExit

Spec == Init /\ [][Next]_vars

\* the program is not stopped while one of its threads can take a step:
\* the main thread goes on, the worker threads are scheduled, and every
\* HTTP attempt returns (the timeout of session.get). Weak fairness of each
\* thread's steps implies it.
Fairness == WF_vars(Next)

SpecScan == InitScan /\ [][Next]_vars

SpecOrder == InitOrder /\ [][Next]_vars

\* the runs of the pipeline under fair scheduling
SpecLive == InitLive /\ [][Next]_vars /\ Fairness

SpecFetch == InitFetch /\ [][Next]_vars

\* ---------------------------------------------------------------- claims
\* run_checker has left the with block of a run that parsed its sitemap
\* and built its executor
PipelineOver ==
  sitemap.well_formed /\ concurrency >= 1 /\ pc \in {"report", "done"}

\* the url fields of results
ResultUrls == [k \in DOMAIN results |-> results[k].url]

\* C1: for a well-formed sitemap with N URLs (repeats allowed) and any
\* concurrency >= 1, results ends with exactly N entries and the multiset of
\* its url fields is the multiset of the sitemap's URLs.
C1_OneResultPerUrl ==
  PipelineOver =>
    LET us == parse_sitemap(sitemap)
    IN  /\ Len(results) = Len(us)
        /\ \A u \in Range(us) \cup Range(ResultUrls) :
             CountIn(ResultUrls, u) = CountIn(us, u)

\* C1 witness: a finished run over a sitemap that names one URL twice,
\* fetched by two workers
C1_Witness ==
  /\ PipelineOver
  /\ concurrency = 2
  /\ Len(urls) = 2
  /\ urls[1] = urls[2]
  /\ num_threads = 2
  /\ Len(results) = 2

\* C2: the number of tasks that have started fetch_url and not yet returned
\* never exceeds concurrency.
C2_RunningWithinConcurrency ==
  concurrency >= 1 => Cardinality(Running) <= concurrency

\* C2 witness: the pool is full (one worker, its task has made an attempt)
\* while another task waits in the queue
C2_Witness ==
  /\ concurrency = 1
  /\ \E i \in Running : attempts[i] >= 1
  /\ \E j \in Tasks : fstate[j] = "PENDING"

\* C3: a failing fetch never raises out of fetch_url nor aborts the run: the
\* future holds the entry {url, ok: false, error}, no exception propagates,
\* and at the end the result of every task, failed or not, is in results.
C3_FailureIsData ==
  /\ \A i \in DOMAIN fresult :
       /\ ~fresult[i].raised
       /\ ~fresult[i].value.ok =>
            /\ DOMAIN fresult[i].value = {"url", "ok", "error"}
            /\ fresult[i].value.url = urls[i]
  /\ ~propagating
  /\ PipelineOver =>
       \A i \in Tasks :
         /\ i \in DOMAIN fresult
         /\ \E k \in DOMAIN results : results[k] = fresult[i].value

\* C3 witness: a finished run in which one URL failed after its retries and
\* another succeeded, both collected
C3_Witness ==
  /\ PipelineOver
  /\ Len(results) = 2
  /\ \E i, j \in DOMAIN fresult :
       /\ ~fresult[i].value.ok
       /\ fresult[i].value.error = "ConnectionError"
       /\ fresult[j].value.ok

\* C4: the report is built and written only when every dispatched task has
\* finished and its result has been appended to results.
C4_ReportAfterCollection ==
  (pc = "report" \/ (pc = "done" /\ session = "closed")) =>
    /\ \A i \in Tasks : fstate[i] = "FINISHED"
    /\ pending = {}
    /\ Len(results) = Len(urls)
    /\ \A i \in Tasks : \E k \in DOMAIN results : results[k] = fresult[i].value

\* C4 witness: the report is about to be built after a task finished later
\* than the snapshot of as_completed
C4_Witness ==
  /\ pc = "report"
  /\ Len(urls) = 2
  /\ concurrency = 2
  /\ results[1] = fresult[2].value
  /\ results[1] # fresult[1].value

\* what every task returns when the URLs are fetched one after the other
Reference == [i \in Tasks |-> fetch_url(urls[i], server[i])]

\* C5: whatever the concurrency and the interleaving, the multiset of
\* entries in results is the one a sequential run over the same URLs and
\* the same server behaviour gives.
C5_SameResultsAsSequential ==
  PipelineOver =>
    LET ref == Reference @@ <<>>    \* built once for the state
    IN  /\ Len(results) = Len(urls)
        /\ \A i \in Tasks :
             /\ ~ref[i].raised
             /\ CountIn(results, ref[i].value) =
                  Cardinality({j \in Tasks : ref[j] = ref[i]})

\* C5 witness: a finished run with two workers whose results are not in the
\* order of the sitemap
C5_Witness ==
  /\ PipelineOver
  /\ concurrency = 2
  /\ num_threads = 2
  /\ Len(results) = 2
  /\ results[1] = Reference[2].value
  /\ results[1] # Reference[1].value
  /\ results[1].ok

\* the response to the n-th attempt of task i
Resp(i, n) == RespAt(server[i], n)

\* the response to the latest attempt of task i
Last(i) == Resp(i, attempts[i])

\* the tasks whose fetch_url has ended after at least one attempt
Fetched == {i \in DOMAIN fresult : ValidUrl(urls[i])}

\* C6 as stated: at most 1 + 3 attempts per URL; an attempt is followed by
\* another only after a transport failure or a status in {500, 502, 503,
\* 504}, and a response with any other status ends the attempts at once.
C6_Original ==
  \A i \in Tasks :
    /\ attempts[i] <= 1 + 3
    /\ \A n \in 1..(attempts[i] - 1) :
         Resp(i, n).kind = "error" \/ Resp(i, n).status \in {500, 502, 503, 504}
    /\ (fstate[i] = "RUNNING" /\ attempts[i] >= 1) =>
         Last(i).kind = "error" \/ Last(i).status \in {500, 502, 503, 504}

\* C6 amended: at most 1 + 3 attempts per URL; an attempt is followed by
\* another only after a transport failure, a status in {500, 502, 503, 504},
\* or a status in {413, 429, 503} that carries a Retry-After header; any
\* other response ends the attempts at once.
C6_AttemptsBounded ==
  \A i \in Tasks :
    /\ attempts[i] <= 1 + 3
    /\ \A n \in 1..(attempts[i] - 1) :
         \/ Resp(i, n).kind = "error"
         \/ Resp(i, n).status \in {500, 502, 503, 504}
         \/ Resp(i, n).retry_after /\ Resp(i, n).status \in {413, 429, 503}
    /\ (fstate[i] = "RUNNING" /\ attempts[i] >= 1) =>
         \/ Last(i).kind = "error"
         \/ Last(i).status \in {500, 502, 503, 504}
         \/ Last(i).retry_after /\ Last(i).status \in {413, 429, 503}

\* C6 witness: a fetch that used all four attempts, retried after a 429
\* with Retry-After, after a transport failure and after a 503
C6_Witness ==
  /\ 1 \in DOMAIN fresult
  /\ attempts[1] = 4
  /\ Resp(1, 1).status = 429
  /\ Resp(1, 2).kind = "error"
  /\ Resp(1, 3).status = 503

\* C7: a URL that answers k <= 3 times with a status in {500, 502, 503,
\* 504} and then with a readable 200 ends as the Success entry of status 200
\* whose has_judol, exact_judol and length are those of the last body.
C7_TransientThenSuccess ==
  \A i \in Fetched : \A k \in 0..3 :
    ( /\ \A n \in 1..k :
           Resp(i, n).kind = "http" /\ Resp(i, n).status \in {500, 502, 503, 504}
      /\ Resp(i, k + 1).kind = "http"
      /\ Resp(i, k + 1).status = 200
      /\ Resp(i, k + 1).intact )
    => /\ ~fresult[i].raised
       /\ fresult[i].value =
            [url |-> urls[i], ok |-> TRUE, status_code |-> 200,
             has_judol |-> HasJudol(Resp(i, k + 1).body),
             exact_judol |-> ExactJudol(Resp(i, k + 1).body),
             length |-> Len(Resp(i, k + 1).body)]

\* C7 witness: three 503 answers whose bodies hold a keyword, then a 200
\* without any; the entry is a Success without has_judol
C7_Witness ==
  /\ 1 \in Fetched
  /\ attempts[1] = 4
  /\ \A n \in 1..3 : Resp(1, n).status = 503 /\ HasJudol(Resp(1, n).body)
  /\ Resp(1, 4).status = 200
  /\ fresult[1].value.ok
  /\ ~fresult[1].value.has_judol

\* C8 as stated: a fetch that ends with a response outside 2xx is a Success
\* entry with that status, and a Failure entry comes only from a transport
\* failure (network failure, timeout, unreadable body).
C8_Original ==
  \A i \in Fetched :
    /\ (Last(i).kind = "http" /\ Last(i).intact /\ Last(i).status \notin 200..299)
       => fresult[i].value.ok /\ fresult[i].value.status_code = Last(i).status
    /\ ~fresult[i].value.ok => (Last(i).kind = "error" \/ ~Last(i).intact)

\* C8 amended: a fetch that ends with a readable response whose status is
\* not in {500, 502, 503, 504}, 2xx or not, is a Success entry with that
\* status, scanned for markers; a Failure entry comes from a transport
\* failure, from a URL that requests refuses, and from a retry budget spent
\* on a status in {500, 502, 503, 504}.
C8_FailureCauses ==
  \A i \in DOMAIN fresult :
    /\ ~fresult[i].raised
    /\ ( /\ ValidUrl(urls[i])
         /\ Last(i).kind = "http"
         /\ Last(i).intact
         /\ Last(i).status \notin {500, 502, 503, 504} )
       => /\ fresult[i].value.ok
          /\ fresult[i].value.status_code = Last(i).status
          /\ fresult[i].value.has_judol = HasJudol(Last(i).body)
          /\ fresult[i].value.exact_judol = ExactJudol(Last(i).body)
    /\ ~fresult[i].value.ok <=>
         \/ ~ValidUrl(urls[i])
         \/ Last(i).kind = "error"
         \/ ~Last(i).intact
         \/ Last(i).status \in {500, 502, 503, 504}

\* C8 witness: a fetch ended by a 404 whose body holds a keyword
C8_Witness ==
  /\ 1 \in Fetched
  /\ Last(1).status = 404
  /\ fresult[1].value.ok
  /\ fresult[1].value.status_code = 404
  /\ fresult[1].value.has_judol

\* C9 as stated: a fetch that ends with a server error (5xx), retryable with
\* the budget spent or not retryable, is a Failure entry.
C9_Original ==
  \A i \in Fetched :
    (Last(i).kind = "http" /\ Last(i).status >= 500) => ~fresult[i].value.ok

\* C9 amended: a fetch whose retry budget is spent while the server answers
\* with a status in {500, 502, 503, 504} is a Failure entry and the run goes
\* on to its report; a readable server error that is not retried (501) is a
\* Success entry with that status.
C9_ExhaustedIsFailure ==
  /\ ~propagating
  /\ \A i \in Fetched :
       /\ (Last(i).kind = "http" /\ Last(i).status \in {500, 502, 503, 504}) =>
            /\ attempts[i] = 1 + 3
            /\ ~fresult[i].raised
            /\ ~fresult[i].value.ok
            /\ DOMAIN fresult[i].value = {"url", "ok", "error"}
            /\ pc = "done" => exit_code # -1 /\ results = <<fresult[i].value>>
       /\ ( /\ Last(i).kind = "http"
            /\ Last(i).intact
            /\ Last(i).status >= 500
            /\ Last(i).status \notin {500, 502, 503, 504} )
          => fresult[i].value.ok /\ fresult[i].value.status_code = Last(i).status

\* C9 witness: four 5xx answers in a row, the Failure entry is the only
\* result of a run that wrote its report
C9_Witness ==
  /\ 1 \in Fetched
  /\ \A n \in 1..4 : Resp(1, n).status \in {500, 503}
  /\ ~fresult[1].value.ok
  /\ pc = "done"
  /\ exit_code = 0
  /\ output_file.results = <<fresult[1].value>>

\* r is a Success entry, or r is a Failure entry
IsVariant(r) ==
  \/ /\ DOMAIN r = {"url", "ok", "status_code", "has_judol", "exact_judol",
                    "length"}
     /\ r.ok = TRUE
  \/ /\ DOMAIN r = {"url", "ok", "error"}
     /\ r.ok = FALSE

\* C10 as stated: every entry of results is exactly one of the two variants,
\* and no URL has both a Success and a Failure entry in one run.
C10_Original ==
  /\ \A k \in DOMAIN results : IsVariant(results[k])
  /\ \A k, l \in DOMAIN results :
       results[k].url = results[l].url => results[k].ok = results[l].ok

\* C10 amended: every entry of results is exactly one of the two variants,
\* and every dispatched occurrence of a URL ends up with exactly one entry
\* (a URL the sitemap repeats may have a Success and a Failure entry).
C10_OneVariantPerEntry ==
  /\ \A k \in DOMAIN results : IsVariant(results[k])
  /\ \A i \in DOMAIN fresult : ~fresult[i].raised /\ IsVariant(fresult[i].value)
  /\ PipelineOver =>
       /\ Len(results) = Len(urls)
       /\ \A i \in Tasks :
            CountIn(results, fresult[i].value) =
              Cardinality({j \in Tasks : fresult[j] = fresult[i]})

\* C10 witness: a finished run whose sitemap names one URL twice, fetched
\* once with success and once without
C10_Witness ==
  /\ PipelineOver
  /\ Len(results) = 2
  /\ results[1].url = results[2].url
  /\ results[1].ok
  /\ ~results[2].ok

\* C11 as stated: every run in which the sitemap parses and the output can be
\* written ends with the report written and exit code 0, count being the
\* number of URLs of the sitemap and the length of results.
C11_Original ==
  (pc = "done" /\ sitemap.well_formed /\ ~output_error) =>
    /\ exit_code = 0
    /\ output_file = report
    /\ report.count = Len(parse_sitemap(sitemap))
    /\ report.count = Len(report.results)

\* C11 amended: every run with a concurrency of at least 1 in which the
\* sitemap parses and the output can be written ends with the report written
\* and exit code 0, count being the number of URLs of the sitemap and the
\* length of results, even when every fetch failed.
C11_ReportWritten ==
  (pc = "done" /\ sitemap.well_formed /\ concurrency >= 1 /\ ~output_error) =>
    /\ exit_code = 0
    /\ output_file = report
    /\ report.count = Len(parse_sitemap(sitemap))
    /\ report.count = Len(report.results)

\* C11 witness: a run over two URLs that both failed, ended with exit code 0
C11_Witness ==
  /\ pc = "done"
  /\ exit_code = 0
  /\ Len(urls) = 2
  /\ Len(results) = 2
  /\ \A k \in DOMAIN results : ~results[k].ok

\* C12: a run whose sitemap is missing or not well-formed, or whose output
\* cannot be written, ends with a non-zero exit code; when the sitemap cannot
\* be parsed the run ends at once: no session, no task dispatched, no worker
\* started, no report built and nothing written.
C12_FatalAborts ==
  /\ (pc = "done" /\ (~sitemap.well_formed \/ output_error)) =>
       /\ exit_code # 0
       /\ DOMAIN output_file = {}
  /\ ~sitemap.well_formed =>
       /\ pc \in {"run_checker", "done"}
       /\ session = "none"
       /\ urls = <<>>
       /\ DOMAIN fstate = {}
       /\ work_queue = <<>>
       /\ num_threads = 0
       /\ DOMAIN report = {}

\* C12 witness: a run over a sitemap that is not well-formed has ended with
\* exit code 2
C12_Witness ==
  /\ pc = "done"
  /\ ~sitemap.well_formed
  /\ exit_code = 2

\* C13 as stated: every run of run_checker that has created the session has
\* closed it when the run is over, whatever the fetches did.
C13_Original ==
  (pc = "done" /\ session # "none") => session = "closed"

\* C14: under fair scheduling and with every HTTP attempt returning, a run
\* over a well-formed sitemap with a concurrency of at least 1 eventually is
\* over with every task of the sitemap finished, its entry collected into
\* results, as_completed exhausted and the report built: no task stays
\* pending or running, none is dropped.
C14_PipelineFinishes ==
  (sitemap.well_formed /\ concurrency >= 1) ~>
    /\ pc = "done"
    /\ Len(urls) = Len(parse_sitemap(sitemap))
    /\ \A i \in Tasks :
         fstate[i] = "FINISHED" /\ CountIn(results, fresult[i].value) >= 1
    /\ Len(results) = Len(urls)
    /\ finished = {} /\ batch = <<>> /\ pending = {}
    /\ DOMAIN report # {}

\* C14 witness: a run over two URLs with two workers is over, both tasks
\* finished and collected
C14_Witness ==
  /\ pc = "done"
  /\ concurrency = 2
  /\ Len(urls) = 2
  /\ \A i \in Tasks :
       fstate[i] = "FINISHED" /\ CountIn(results, fresult[i].value) >= 1
  /\ Len(results) = 2
  /\ DOMAIN report # {}

\* the body the server sends to task i at its first attempt
Body(i) == server[i][1].body

\* C15: in every Success entry, exact_judol = TRUE implies has_judol = TRUE.
C15_ExactImpliesHas ==
  \A i \in DOMAIN fresult :
    fresult[i].value.ok =>
      (fresult[i].value.exact_judol => fresult[i].value.has_judol)

\* C15 witness: a Success entry for a body that is "JuDoL" between
\* whitespace, with exact_judol = TRUE
C15_Witness ==
  /\ 1 \in DOMAIN fresult
  /\ Body(1) = <<" ", "J", "u", "D", "o", "L", "\n">>
  /\ fresult[1].value.ok
  /\ fresult[1].value.exact_judol

\* the upper-case form of the letters of the four keywords
UpperOf ==
  [a |-> "A", c |-> "C", d |-> "D", e |-> "E", g |-> "G", i |-> "I",
   j |-> "J", l |-> "L", m |-> "M", n |-> "N", o |-> "O", r |-> "R",
   t |-> "T", u |-> "U", w |-> "W", x |-> "X"]

\* word, in any mix of cases, stands in text from position p on
StandsAt(text, p, word) ==
  /\ p + Len(word) - 1 <= Len(text)
  /\ \A k \in 1..Len(word) : text[p + k - 1] \in {word[k], UpperOf[word[k]]}

\* word, in any mix of cases, is a substring of text
Occurs(text, word) == \E p \in 1..Len(text) : StandsAt(text, p, word)

\* the finished tasks whose entry is a Success
Scanned == {i \in DOMAIN fresult : fresult[i].value.ok}

Inked(text) == {p \in 1..Len(text) : text[p] \notin {" ", "\t", "\n"}}

\* text is "judol" in some mix of cases between leading and trailing
\* whitespace
IsJudolTrimmed(text) ==
  /\ Inked(text) # {}
  /\ LET first == CHOOSE p \in Inked(text) : \A q \in Inked(text) : p <= q
         last == CHOOSE p \in Inked(text) : \A q \in Inked(text) : q <= p
     IN  last - first = 4 /\ StandsAt(text, first, <<"j","u","d","o","l">>)

RECURSIVE TrimmedTexts(_)
TrimmedTexts(locs) ==
  IF locs = <<>> THEN <<>>
  ELSE LET t == IF Head(locs).has_text THEN Strip(Head(locs).text) ELSE <<>>
       IN  IF t # <<>> THEN <<t>> \o TrimmedTexts(Tail(locs))
           ELSE TrimmedTexts(Tail(locs))

\* C18 as stated: parse_sitemap returns, in document order, the trimmed text
\* of every <loc> element, skipping the elements whose text is empty or
\* missing, so that no returned URL is the empty string, a <loc> of
\* whitespace only included.
C18_Original ==
  (sitemap.well_formed /\ pc # "run_checker") =>
    /\ urls = TrimmedTexts(sitemap.locs)
    /\ \A k \in DOMAIN urls : urls[k] # <<>>

\* the place of x in seq
Pos(seq, x) == CHOOSE p \in DOMAIN seq : seq[p] = x

\* C19 as stated: the entries of results are in the order in which the
\* tasks finished, the tasks that had finished before as_completed started
\* included.
C19_Original ==
  \A i, j \in Range(collected) :
    Pos(completed, i) < Pos(completed, j) =>
      Pos(collected, i) < Pos(collected, j)

\* C19 amended: a task that finishes after as_completed has started has its
\* entry after the entry of every task that finished before it; the tasks
\* that had finished before as_completed started come first, in no
\* particular order among themselves.
C19_CompletionOrderAfterStart ==
  \A j \in Range(collected) :
    \A i \in Range(completed) \ {0} :
      (Pos(completed, 0) < Pos(completed, j) /\
       Pos(completed, i) < Pos(completed, j)) =>
        /\ i \in Range(collected)
        /\ Pos(collected, i) < Pos(collected, j)

\* C19 witness: a finished run in which one task finished before
\* as_completed started and another one after, collected in that order
C19_Witness ==
  /\ PipelineOver
  /\ Len(completed) = 3
  /\ completed[2] = 0
  /\ collected = <<completed[1], completed[3]>>

\* C20: once the session is closed no task is pending or running and no
\* work item is left in the queue, so that no fetch_url uses the session
\* after session.close().
C20_NoUseAfterClose ==
  session = "closed" =>
    /\ \A i \in Tasks : fstate[i] = "FINISHED"
    /\ Running = {}
    /\ \A k \in DOMAIN work_queue : work_queue[k] = 0
    /\ alive = 0

\* C20 witness: the session is closed after two tasks were fetched by two
\* workers with retries
C20_Witness ==
  /\ session = "closed"
  /\ concurrency = 2
  /\ Len(urls) = 2
  /\ \A i \in Tasks : attempts[i] >= 2

====
